---- MODULE Spec2Model ----
(***************************************************************************)
(* Model of src/ecc_compact/mod.rs: network-tagged, compactly encoded      *)
(* elliptic-curve keypairs (generation, tagged serialisation, ECDSA        *)
(* signing and verification).                                              *)
(*                                                                         *)
(* The p256 primitives the module calls are computed on a scaled-down      *)
(* curve of the same shape as NIST P-256: y^2 = x^3 - 3x + b over F_p,     *)
(* p = 3 (mod 4), prime group order n < p, cofactor 1.  Field elements     *)
(* and scalars occupy FieldSize = 2 bytes instead of 32, so a keypair or   *)
(* public key is FieldSize + 1 = 3 bytes instead of 33.                    *)
(***************************************************************************)
EXTENDS Integers, Sequences, FiniteSets, TLC

\* ------------------------------------------------------------- the curve
\* Field modulus (p256: MODULUS).
P == 283
\* Curve equation coefficients (p256: CURVE_EQUATION_A = -3, CURVE_EQUATION_B).
A == 280
B == 1
\* Group order (p256: NistP256::ORDER).
N == 271
\* Base point (p256: AffinePoint::generator()).
Gx == 5
Gy == 66
\* Bytes of a field element or scalar (p256: FieldSize, 32 there).
FieldSize == 2
\* Length of a serialised keypair: the tag byte and the scalar (33 there).
KEYPAIR_LENGTH == FieldSize + 1
\* Values of a u8.
ByteBase == 256
\* Width of the message digest in values (SHA-256 there: 2^256).
DigestMod == 512

\* ------------------------------------------------------------ the bounds
\* Longest message signed or verified.
MaxMsgLen == 1
\* Most random draws one call of generate is followed through.
MaxDraws == 3

None == [kind |-> "none"]
Ok(v) == [ok |-> TRUE, val |-> v]
Err(e) == [ok |-> FALSE, err |-> e]

\* -------------------------------------------------------- field arithmetic
InvP == [v \in 1..(P - 1) |-> CHOOSE i \in 1..(P - 1) : (i * v) % P = 1]
InvN == [v \in 1..(N - 1) |-> CHOOSE i \in 1..(N - 1) : (i * v) % N = 1]

RECURSIVE PowP(_, _)
PowP(v, e) == IF e = 0 THEN 1
              ELSE LET h == PowP(v, e \div 2)
                   IN  IF e % 2 = 0 THEN (h * h) % P ELSE (((h * h) % P) * v) % P

\* x^3 + ax + b, the right-hand side of the curve equation.
CurveRhs(x) == (x * x * x + A * x + B) % P

\* FieldElement::sqrt for p = 3 (mod 4): the candidate v^((p+1)/4), kept only
\* when it squares back to v.
SqrtP == [v \in 0..(P - 1) |->
            LET r == PowP(v, (P + 1) \div 4)
            IN  IF (r * r) % P = v THEN Ok(r) ELSE Err("no square root")]

\* ------------------------------------------------------------ group law
Inf == [inf |-> TRUE, x |-> 0, y |-> 0]
Pt(x, y) == [inf |-> FALSE, x |-> x, y |-> y]
G == Pt(Gx, Gy)

OnCurve(Q) == (~Q.inf) /\ (Q.y * Q.y) % P = CurveRhs(Q.x)

PointAdd(Q, R) ==
    IF Q.inf THEN R
    ELSE IF R.inf THEN Q
    ELSE IF Q.x = R.x /\ (Q.y + R.y) % P = 0 THEN Inf
    ELSE LET lam == IF Q.x = R.x
                    THEN ((3 * Q.x * Q.x + A) * InvP[(2 * Q.y) % P]) % P
                    ELSE (((R.y - Q.y) % P) * InvP[(R.x - Q.x) % P]) % P
             x3  == (lam * lam - Q.x - R.x) % P
             y3  == (lam * (Q.x - x3) - Q.y) % P
         IN  Pt(x3, y3)

RECURSIVE ScalarMul(_, _)
ScalarMul(k, Q) ==
    IF k = 0 THEN Inf
    ELSE LET h == ScalarMul(k \div 2, Q)
             d == PointAdd(h, h)
         IN  IF k % 2 = 0 THEN d ELSE PointAdd(d, Q)

\* k*G for every scalar (SecretKey::public_key).
MulG == [k \in 0..(N - 1) |-> ScalarMul(k, G)]


\* ----------------------------------------------------------------- bytes
Byte == 0..(ByteBase - 1)

RECURSIVE FromBeBytes(_)
\* Big-endian value of a byte string.
FromBeBytes(bs) ==
    IF Len(bs) = 0 THEN 0
    ELSE FromBeBytes(SubSeq(bs, 1, Len(bs) - 1)) * ByteBase + bs[Len(bs)]

RECURSIVE ToBeBytes(_, _)
\* Fixed-width big-endian, zero-padded encoding of v.
ToBeBytes(v, width) ==
    IF width = 0 THEN <<>>
    ELSE Append(ToBeBytes(v \div ByteBase, width - 1), v % ByteBase)

Tail1(bs) == SubSeq(bs, 2, Len(bs))

\* ------------------------------------------------- network and key tag
Networks == {"MainNet", "TestNet"}

\* u8::from(Network): the network sits in the high four bits of the tag.
NetworkByte(network) == IF network = "MainNet" THEN 0 ELSE 16

\* u8::from(KeyType::EccCompact): the key type sits in the low four bits.
KeyTypeEccCompact == 0

\* Network::try_from(u8).
Network_try_from(b) ==
    LET high == b \div 16
    IN  IF high = 0 THEN Ok("MainNet")
        ELSE IF high = 1 THEN Ok("TestNet")
        ELSE Err("UnknownNetworkError")

\* u8::from(KeyTag { network, key_type: KeyType::EccCompact }).
KeyTagByte(network) == NetworkByte(network) + KeyTypeEccCompact

\* public_key::PublicKey::for_network(network, PublicKey(point)).
for_network(network, point) == [network |-> network, point |-> point]

\* ------------------------------------------------------ p256 primitives
\* The scalars SecretKey::random can return: every non-zero scalar.
Scalars == 1..(N - 1)

\* p256::SecretKey::from_bytes: exactly FieldSize bytes, value in [1, n-1].
SecretKey_from_bytes(bs) ==
    IF Len(bs) # FieldSize THEN Err("InvalidScalarError")
    ELSE LET v == FromBeBytes(bs)
         IN  IF v >= 1 /\ v < N THEN Ok(v) ELSE Err("InvalidScalarError")

\* SecretKey::to_bytes.
SecretKey_to_bytes(d) == ToBeBytes(d, FieldSize)

\* SecretKey::public_key: the point d*G.
public_key(d) == MulG[d]

\* A point is compactable when y = min(y, p - y), that is p - y >= y.
is_compactable(Q) == (~Q.inf) /\ (P - Q.y) >= Q.y

\* sec1 tag of a compact point.
TagCompact == 5

\* AffinePoint::to_compact_encoded_point: Tag::Compact followed by x, or
\* nothing for a point that is not compactable.
to_compact_encoded_point(Q) ==
    IF is_compactable(Q) THEN Ok(<<TagCompact>> \o ToBeBytes(Q.x, FieldSize))
    ELSE Err("none")

\* decompact taking the larger of the two roots.
decompact_LargerRoot(xb) ==
    LET x == FromBeBytes(xb)
    IN  IF x >= P THEN Err("none")
        ELSE LET root == SqrtP[CurveRhs(x)]
             IN  IF ~root.ok THEN Err("none")
                 ELSE LET y  == root.val
                          py == P - y
                      IN  Ok(Pt(x, IF py >= y THEN py ELSE y))

\* AffinePoint::decompact: x must be a field element and x^3 + ax + b a
\* square; of the two roots the smaller one is taken.
decompact(xb) ==
    LET x == FromBeBytes(xb)
    IN  IF x >= P THEN Err("none")
        ELSE LET root == SqrtP[CurveRhs(x)]
             IN  IF ~root.ok THEN Err("none")
                 ELSE LET y  == root.val
                          py == P - y
                      IN  Ok(Pt(x, IF py >= y THEN y ELSE py))

\* p256::PublicKey::from_affine: refuses the point at infinity.
from_affine(Q) == IF Q.inf THEN Err("EllipticCurveError") ELSE Ok(Q)

\* ------------------------------------------------------------------ DER
RECURSIVE MinimalBytes(_)
\* Shortest big-endian encoding of v, at least one byte.
MinimalBytes(v) ==
    IF v < ByteBase THEN <<v>>
    ELSE Append(MinimalBytes(v \div ByteBase), v % ByteBase)

\* ASN.1 tags.
TagSequence == 48
TagInteger == 2
\* First content byte of a negative INTEGER, and first long-form length.
HighBit == 128

\* DER INTEGER: a zero byte is prepended when the top bit is set.
DerInt(v) ==
    LET m == MinimalBytes(v)
        c == IF m[1] >= HighBit THEN <<0>> \o m ELSE m
    IN  <<TagInteger, Len(c)>> \o c

\* ecdsa::Signature::to_der: SEQUENCE { INTEGER r, INTEGER s }.
to_der(sg) ==
    LET body == DerInt(sg.r) \o DerInt(sg.s)
    IN  <<TagSequence, Len(body)>> \o body

\* One DER INTEGER starting at index i: its value and the index after it.
ParseInt(bs, i) ==
    IF i + 1 > Len(bs) \/ bs[i] # TagInteger THEN Err("der")
    ELSE LET l == bs[i + 1]
         IN  IF l < 1 \/ l >= HighBit \/ i + 1 + l > Len(bs) THEN Err("der")
             ELSE LET c == SubSeq(bs, i + 2, i + 1 + l)
                  IN  IF c[1] >= HighBit THEN Err("der")
                      ELSE IF l > 1 /\ c[1] = 0 /\ c[2] < HighBit THEN Err("der")
                      ELSE Ok([val |-> FromBeBytes(c), next |-> i + 2 + l])

\* ecdsa::Signature::from_der: a well-formed SEQUENCE of two INTEGERs with
\* nothing after it, both in [1, n-1].
from_der(bs) ==
    IF Len(bs) < 2 \/ bs[1] # TagSequence \/ bs[2] # Len(bs) - 2
    THEN Err("SignatureDecodeError")
    ELSE LET pr == ParseInt(bs, 3)
         IN  IF ~pr.ok THEN Err("SignatureDecodeError")
             ELSE LET ps == ParseInt(bs, pr.val.next)
                  IN  IF ~ps.ok \/ ps.val.next # Len(bs) + 1
                      THEN Err("SignatureDecodeError")
                      ELSE IF pr.val.val < 1 \/ pr.val.val >= N
                              \/ ps.val.val < 1 \/ ps.val.val >= N
                      THEN Err("SignatureDecodeError")
                      ELSE Ok([r |-> pr.val.val, s |-> ps.val.val])

\* ---------------------------------------------------------------- ECDSA
MsgBytes == {0, 1}

RECURSIVE SeqsUpTo(_, _)
SeqsUpTo(S, n) ==
    IF n = 0 THEN {<<>>}
    ELSE LET shorter == SeqsUpTo(S, n - 1)
         IN  shorter \cup {Append(q, e) : q \in shorter, e \in S}

Messages == SeqsUpTo(MsgBytes, MaxMsgLen)

RECURSIVE Digest(_)
\* The message digest (SHA-256 there), an iterated compression of the bytes.
Digest(m) ==
    IF Len(m) = 0 THEN 361
    ELSE (Digest(SubSeq(m, 1, Len(m) - 1)) * 167 + m[Len(m)] * 59 + 101) % DigestMod

\* The digest as a scalar (bits2field followed by reduction mod n).
HashToScalar(m) == Digest(m) % N

\* The i-th candidate of the deterministic nonce sequence (RFC 6979 there):
\* a function of the private scalar and the digest, in [1, n-1].
Nonce(d, z, i) == ((d * 89 + z * 53 + 17 + i) % (N - 1)) + 1

RECURSIVE SignAttempt(_, _, _)
\* One signing attempt per candidate nonce: R = k*G, r = R.x mod n,
\* s = k^-1 (z + r d) mod n; a zero r or s moves on to the next candidate.
SignAttempt(d, z, i) ==
    LET k == Nonce(d, z, i)
        r == MulG[k].x % N
        s == (InvN[k] * ((z + r * d) % N)) % N
    IN  IF r = 0 \/ s = 0 THEN SignAttempt(d, z, i + 1)
        ELSE [r |-> r, s |-> s]

\* p256::ecdsa::SigningKey::from(inner).sign(msg).
SigningKey_sign(d, msg) == SignAttempt(d, HashToScalar(msg), 0)

\* p256::ecdsa::VerifyingKey::from(point).verify(msg, signature):
\* R = (z/s) G + (r/s) Q must not be the identity and R.x mod n must be r.
VerifyingKey_verify(Q, msg, sg) ==
    LET z  == HashToScalar(msg)
        w  == InvN[sg.s]
        u1 == (z * w) % N
        u2 == (sg.r * w) % N
        R  == PointAdd(MulG[u1], ScalarMul(u2, Q))
    IN  IF (~R.inf) /\ R.x % N = sg.r THEN Ok("verified")
        ELSE Err("SignatureInvalidError")


\* ------------------------------------------------- the module's functions
Keypair(network, inner, point) ==
    [network |-> network, public_key |-> for_network(network, point), inner |-> inner]

\* Keypair::try_from parsing the scalar before the network.
Keypair_try_from_ScalarFirst(input) ==
    LET inner == SecretKey_from_bytes(Tail1(input))
    IN  IF ~inner.ok THEN inner
        ELSE LET network == Network_try_from(input[1])
             IN  IF ~network.ok THEN network
                 ELSE Ok(Keypair(network.val, inner.val, public_key(inner.val)))

\* impl TryFrom<&[u8]> for Keypair.
Keypair_try_from(input) ==
    LET network == Network_try_from(input[1])
    IN  IF ~network.ok THEN network
        ELSE LET inner == SecretKey_from_bytes(Tail1(input))
             IN  IF ~inner.ok THEN inner
                 ELSE Ok(Keypair(network.val, inner.val, public_key(inner.val)))

\* Keypair::to_bytes writing the key type alone into the tag byte.
Keypair_to_bytes_NoNetwork(k) == <<KeyTypeEccCompact>> \o SecretKey_to_bytes(k.inner)

\* impl IntoBytes for Keypair, through Keypair::to_bytes.
Keypair_to_bytes(k) == <<KeyTagByte(k.network)>> \o SecretKey_to_bytes(k.inner)

RECURSIVE NextCompactable(_)
NextCompactable(d) ==
    IF is_compactable(public_key(d)) THEN d ELSE NextCompactable((d % (N - 1)) + 1)

\* generate_from_entropy moving on to another scalar instead of failing.
generate_from_entropy_Resamples(network, entropy) ==
    LET inner == SecretKey_from_bytes(entropy)
    IN  IF ~inner.ok THEN inner
        ELSE LET d == NextCompactable(inner.val)
             IN  Ok(Keypair(network, d, public_key(d)))

\* Keypair::generate_from_entropy.
generate_from_entropy(network, entropy) ==
    LET inner == SecretKey_from_bytes(entropy)
    IN  IF ~inner.ok THEN inner
        ELSE IF ~is_compactable(public_key(inner.val)) THEN Err("NotCompactError")
        ELSE Ok(Keypair(network, inner.val, public_key(inner.val)))

\* impl signature::Signer<Signature> for Keypair.
try_sign(k, msg) == Ok(SigningKey_sign(k.inner, msg))

\* sign returning the fixed-width r || s bytes instead of DER.
sign_RawBytes(k, msg) ==
    LET signature == try_sign(k, msg)
    IN  IF ~signature.ok THEN signature
        ELSE Ok(ToBeBytes(signature.val.r, FieldSize) \o ToBeBytes(signature.val.s, FieldSize))

\* impl keypair::Sign for Keypair.
sign(k, msg) ==
    LET signature == try_sign(k, msg)
    IN  IF ~signature.ok THEN signature ELSE Ok(to_der(signature.val))

\* verify reporting a signature that does not parse as an invalid one.
verify_NoDecodeError(point, msg, sigbytes) ==
    LET signature == from_der(sigbytes)
    IN  IF ~signature.ok THEN Err("SignatureInvalidError")
        ELSE VerifyingKey_verify(point, msg, signature.val)

\* impl public_key::Verify for PublicKey.
verify(point, msg, sigbytes) ==
    LET signature == from_der(sigbytes)
    IN  IF ~signature.ok THEN signature
        ELSE VerifyingKey_verify(point, msg, signature.val)

\* PublicKey::try_from decoding x without the field-element range check.
PublicKey_try_from_Unreduced(input) ==
    LET x    == FromBeBytes(Tail1(input))
        root == SqrtP[CurveRhs(x % P)]
    IN  IF ~root.ok THEN Err("NotCompactError")
        ELSE from_affine(Pt(x, IF P - root.val >= root.val THEN root.val
                               ELSE P - root.val))

\* impl TryFrom<&[u8]> for PublicKey.
PublicKey_try_from(input) ==
    LET point == decompact(Tail1(input))
    IN  IF point.ok THEN from_affine(point.val) ELSE Err("NotCompactError")

\* impl IntoBytes for PublicKey: the compact encoding without its sec1 tag;
\* expect("compact point") panics on a point that has none.
PublicKey_bytes_into(point) ==
    LET encoded == to_compact_encoded_point(point)
    IN  IF encoded.ok THEN Ok(Tail1(encoded.val)) ELSE Err("panic: compact point")

\* The tagged public key: byte 0 the key tag, then the compact point.
PublicKey_to_bytes(pub) ==
    LET body == PublicKey_bytes_into(pub.point)
    IN  IF body.ok THEN Ok(<<KeyTagByte(pub.network)>> \o body.val) ELSE body

\* ----------------------------------------------------------------- inputs
TagInputs == {0, 1, 16, 17, 32, 255}
BodyInputs == {<<h, l>> : h \in {0, 1, 255}, l \in Byte}
KeypairInputs == {<<t>> \o b : t \in TagInputs, b \in BodyInputs}
EntropyInputs == BodyInputs \cup {<<>>, <<7>>, <<0, 0, 7>>}
SigInputs ==
    { <<>>, <<48, 0>>, <<49, 6, 2, 1, 5, 2, 1, 9>>, <<48, 6, 2, 1, 5, 2, 1>>,
      <<48, 6, 2, 1, 5, 2, 1, 9, 0>>, <<48, 7, 2, 2, 0, 5, 2, 1, 9>>,
      <<48, 6, 2, 1, 200, 2, 1, 9>>, <<48, 6, 2, 1, 0, 2, 1, 9>>,
      <<48, 7, 2, 2, 1, 15, 2, 1, 9>>, <<48, 6, 2, 1, 5, 2, 1, 9>> }

\* ------------------------------------------------------------------ state
VARIABLES
    pc,      \* "idle", "generate" (inside generate's loop) or "panicked"
    gen,     \* the locals of the running generate call
    kp,      \* the keypair the caller holds, or None
    origin,  \* how kp was constructed
    pk,      \* a public key the caller holds on its own, or None
    out      \* the last call: its name, arguments and result

vars == <<pc, gen, kp, origin, pk, out>>

Init ==
    /\ pc = "idle"
    /\ gen = None
    /\ kp = None
    /\ origin = "none"
    /\ pk = None
    /\ out = None

Fresh == pc = "idle" /\ kp = None /\ pk = None /\ out = None

\* The public key an operation acts on: the keypair's, or the one held alone.
Subject == IF kp # None THEN kp.public_key ELSE pk

Holding == pc = "idle" /\ (kp # None \/ pk # None)

\* The caller lets go of what it holds (keys are values, destroyed at scope
\* exit).  The caller is followed holding one key at a time: a constructor
\* is called when nothing is held.
Drop ==
    /\ pc = "idle"
    /\ ~Fresh
    /\ kp' = None /\ origin' = "none" /\ pk' = None /\ out' = None
    /\ UNCHANGED <<pc, gen>>

\* generate, up to the loop: the first draw.
GenerateCall ==
    /\ Fresh
    /\ \E network \in Networks, d \in Scalars :
          gen' = [network |-> network, inner |-> d, public_key |-> public_key(d),
                  draws |-> 1, iters |-> 0]
    /\ pc' = "generate"
    /\ UNCHANGED <<kp, origin, pk, out>>

\* The loop body drawing a new scalar and keeping the old point.
LoopBody_StalePoint(g, d) ==
    [g EXCEPT !.inner = d, !.draws = @ + 1, !.iters = @ + 1]

\* The locals after one more iteration of the loop that draws d.
LoopBody(g, d) ==
    [g EXCEPT !.inner = d, !.public_key = public_key(d),
              !.draws = @ + 1, !.iters = @ + 1]

\* The loop condition with the test inverted.
LoopCondition_Inverted(g) == is_compactable(g.public_key)

\* while !is_compactable: the loop is entered again.
LoopCondition(g) == ~is_compactable(g.public_key)

\* One iteration of the loop whose draw is again not compactable.
GenerateRetry ==
    /\ pc = "generate"
    /\ LoopCondition(gen)
    /\ gen.draws < MaxDraws
    /\ \E d \in Scalars :
          /\ ~is_compactable(public_key(d))
          /\ gen' = LoopBody(gen, d)
    /\ UNCHANGED <<pc, kp, origin, pk, out>>

\* One iteration of the loop whose draw is compactable.
GenerateRetryCompactable ==
    /\ pc = "generate"
    /\ LoopCondition(gen)
    /\ \E d \in Scalars :
          /\ is_compactable(public_key(d))
          /\ gen' = LoopBody(gen, d)
    /\ UNCHANGED <<pc, kp, origin, pk, out>>

\* The keypair generate builds from its locals.
GenerateResult(g) == Keypair(g.network, g.inner, g.public_key)

\* The loop is left and the keypair is returned.
GenerateReturn ==
    /\ pc = "generate"
    /\ ~LoopCondition(gen)
    /\ pc' = "idle"
    /\ kp' = GenerateResult(gen)
    /\ origin' = "generate"
    /\ out' = [op |-> "generate", network |-> gen.network, res |-> Ok(kp'),
               inner |-> gen.inner, draws |-> gen.draws, iters |-> gen.iters]
    /\ gen' = None
    /\ UNCHANGED pk

GenerateFromEntropy ==
    /\ Fresh
    /\ \E network \in Networks, entropy \in EntropyInputs :
          LET r == generate_from_entropy(network, entropy)
          IN  /\ kp' = IF r.ok THEN r.val ELSE None
              /\ origin' = IF r.ok THEN "entropy" ELSE "none"
              /\ out' = [op |-> "generate_from_entropy", network |-> network,
                         input |-> entropy, res |-> r]
    /\ UNCHANGED <<pc, gen, pk>>

\* keypair_from_bytes on bytes from outside.
KeypairFromBytes ==
    /\ Fresh
    /\ \E input \in KeypairInputs :
          LET r == Keypair_try_from(input)
          IN  /\ kp' = IF r.ok THEN r.val ELSE None
              /\ origin' = IF r.ok THEN "bytes" ELSE "none"
              /\ out' = [op |-> "keypair_from_bytes", input |-> input, res |-> r]
    /\ UNCHANGED <<pc, gen, pk>>

KeypairToBytes ==
    /\ pc = "idle" /\ kp # None
    /\ out' = [op |-> "keypair_to_bytes", res |-> Ok(Keypair_to_bytes(kp))]
    /\ UNCHANGED <<pc, gen, kp, origin, pk>>

\* keypair_from_bytes on the bytes keypair_to_bytes has just written.
KeypairReparse ==
    /\ pc = "idle" /\ out # None /\ out.op = "keypair_to_bytes"
    /\ out' = [op |-> "keypair_reparse", input |-> out.res.val,
               res |-> Keypair_try_from(out.res.val)]
    /\ UNCHANGED <<pc, gen, kp, origin, pk>>

\* public_key_from_bytes on bytes from outside.
PublicKeyFromBytes ==
    /\ Fresh
    /\ \E input \in KeypairInputs :
          LET r == PublicKey_try_from(input)
          IN  /\ pk' = IF r.ok THEN for_network("MainNet", r.val) ELSE None
              /\ out' = [op |-> "public_key_from_bytes", input |-> input, res |-> r]
    /\ UNCHANGED <<pc, gen, kp, origin>>

\* public_key_to_bytes; encoding a point that has no compact form panics.
PublicKeyToBytes ==
    /\ Holding
    /\ LET r == PublicKey_to_bytes(Subject)
       IN  /\ out' = [op |-> "public_key_to_bytes", res |-> r]
           /\ pc' = IF r.ok THEN "idle" ELSE "panicked"
    /\ UNCHANGED <<gen, kp, origin, pk>>

\* public_key_from_bytes on the bytes public_key_to_bytes has just written.
PublicKeyReparse ==
    /\ pc = "idle" /\ out # None /\ out.op = "public_key_to_bytes"
    /\ out' = [op |-> "public_key_reparse", input |-> out.res.val,
               res |-> PublicKey_try_from(out.res.val)]
    /\ UNCHANGED <<pc, gen, kp, origin, pk>>

Sign ==
    /\ pc = "idle" /\ kp # None
    /\ \E msg \in Messages :
          out' = [op |-> "sign", msg |-> msg, res |-> sign(kp, msg)]
    /\ UNCHANGED <<pc, gen, kp, origin, pk>>

\* verify on the signature sign has just returned.
VerifySigned ==
    /\ pc = "idle" /\ kp # None /\ out # None /\ out.op = "sign" /\ out.res.ok
    /\ \E msg \in Messages :
          out' = [op |-> "verify", msg |-> msg, sig |-> out.res.val,
                  signed |-> <<out.msg>>,
                  res |-> verify(kp.public_key.point, msg, out.res.val)]
    /\ UNCHANGED <<pc, gen, kp, origin, pk>>

\* verify on signature bytes from outside.  verify reads only its arguments,
\* so calling it again right after a verify leads to no state that is not
\* reached already; every (key, message, bytes) combination is reached.
VerifyBytes ==
    /\ Holding /\ out # None /\ out.op # "verify"
    /\ \E msg \in Messages, sigbytes \in SigInputs :
          out' = [op |-> "verify", msg |-> msg, sig |-> sigbytes, signed |-> <<>>,
                  res |-> verify(Subject.point, msg, sigbytes)]
    /\ UNCHANGED <<pc, gen, kp, origin, pk>>

Next ==
    \/ Drop
    \/ GenerateCall
    \/ GenerateRetry
    \/ GenerateRetryCompactable
    \/ GenerateReturn
    \/ GenerateFromEntropy
    \/ KeypairFromBytes
    \/ KeypairToBytes
    \/ KeypairReparse
    \/ PublicKeyFromBytes
    \/ PublicKeyToBytes
    \/ PublicKeyReparse
    \/ Sign
    \/ VerifySigned
    \/ VerifyBytes

Spec == Init /\ [][Next]_vars

\* generate alone: the calls of generate, followed to their return, under
\* the assumption that the random source does not yield scalars with
\* non-compactable points forever.
GenerateNext ==
    \/ Drop
    \/ GenerateCall
    \/ GenerateRetry
    \/ GenerateRetryCompactable
    \/ GenerateReturn

LiveSpec ==
    /\ Init
    /\ [][GenerateNext]_vars
    /\ WF_vars(GenerateRetryCompactable)
    /\ WF_vars(GenerateReturn)

\* ------------------------------------------------------------ properties
Called(op) == out # None /\ out.op = op

\* Every point of the curve, found from the curve equation alone.
CurvePoints == {Q \in {Pt(x, y) : x \in 0..(P - 1), y \in 0..(P - 1)} : OnCurve(Q)}

\* The network tags: a network in the high four bits, anything below.
RecognisedTag(t) == \E network \in Networks : t \div 16 = NetworkByte(network) \div 16

NetworkOfTag(t) == CHOOSE network \in Networks : t \div 16 = NetworkByte(network) \div 16

\* C1: parsing the bytes keypair_to_bytes wrote for a generated keypair
\* succeeds and gives back that keypair: network, scalar and public key.
C1_KeypairRoundTrip ==
    (Called("keypair_reparse") /\ origin = "generate") =>
        /\ Len(out.input) = KEYPAIR_LENGTH
        /\ out.res.ok
        /\ out.res.val.network = kp.network
        /\ out.res.val.inner = kp.inner
        /\ out.res.val.public_key = kp.public_key
        /\ out.res.val = kp

C1_Witness ==
    /\ Called("keypair_reparse") /\ origin = "generate"
    /\ kp.network = "TestNet" /\ kp.inner >= ByteBase
    /\ out.res = Ok(kp)

\* C2: decoding the bytes public_key_to_bytes wrote gives back the public
\* key's point, and a compactable point on the curve is always encoded.
C2_PublicKeyRoundTrip ==
    /\ (Called("public_key_to_bytes") /\ is_compactable(Subject.point)
          /\ OnCurve(Subject.point)) =>
            (out.res.ok /\ Len(out.res.val) = KEYPAIR_LENGTH)
    /\ Called("public_key_reparse") => out.res = Ok(Subject.point)

C2_Witness ==
    /\ Called("public_key_reparse")
    /\ out.res = Ok(Subject.point)
    /\ Subject.point.x >= ByteBase

\* C3: sign never fails, and the signature it returns for a message
\* verifies for that message under the keypair's public key, the empty
\* message included.
C3_SignVerify ==
    /\ Called("sign") => out.res.ok
    /\ (Called("verify") /\ out.signed = <<out.msg>>) => out.res = Ok("verified")

C3_Witness ==
    /\ Called("verify") /\ out.signed = <<out.msg>> /\ out.msg = <<>>
    /\ out.res = Ok("verified")

\* C4: the keypair generate returns has a compactable public point, which
\* is its private scalar times G, both from the last draw of the loop.
C4_GenerateCompactable ==
    /\ pc = "generate" => gen.public_key = MulG[gen.inner]
    /\ Called("generate") =>
        /\ out.res = Ok(kp)
        /\ is_compactable(kp.public_key.point)
        /\ kp.public_key.point = MulG[kp.inner]
        /\ kp.inner = out.inner
        /\ kp.network = out.network /\ kp.public_key.network = out.network

C4_Witness ==
    Called("generate") /\ out.iters >= 1 /\ is_compactable(kp.public_key.point)

\* C5: every keypair, however constructed, has public key = scalar * G and
\* a compactable public point, and the compact encoder never panics.
C5_EveryKeypairCompactable ==
    /\ kp # None =>
        /\ kp.public_key.point = MulG[kp.inner]
        /\ is_compactable(kp.public_key.point)
    /\ pc # "panicked"

\* C6 as stated: generate_from_entropy has two outcomes, NotCompactError
\* when the scalar read from the entropy has a non-compactable point and
\* otherwise the keypair of that scalar.
C6_TwoOutcomes ==
    Called("generate_from_entropy") =>
        LET v == FromBeBytes(out.input)
        IN  IF v \in Scalars /\ ~is_compactable(MulG[v])
            THEN out.res = Err("NotCompactError") /\ kp = None
            ELSE out.res.ok /\ out.res.val.inner = v

\* C6 amended: one attempt, decided by the arguments alone, with three
\* outcomes: InvalidScalarError when the entropy is not FieldSize bytes
\* holding a scalar in [1, n-1]; NotCompactError when that scalar's point
\* is not compactable; otherwise the keypair of exactly that scalar.
C6_ThreeOutcomes ==
    Called("generate_from_entropy") =>
        LET v == FromBeBytes(out.input)
        IN  IF Len(out.input) # FieldSize \/ v \notin Scalars
            THEN out.res = Err("InvalidScalarError") /\ kp = None
            ELSE IF ~is_compactable(MulG[v])
            THEN out.res = Err("NotCompactError") /\ kp = None
            ELSE /\ out.res = Ok(Keypair(out.network, v, MulG[v]))
                 /\ kp = out.res.val

C6_Witness ==
    /\ Called("generate_from_entropy")
    /\ FromBeBytes(out.input) \in Scalars
    /\ ~is_compactable(MulG[FromBeBytes(out.input)])
    /\ out.res = Err("NotCompactError")

\* C7: every call of generate returns a keypair, never an error; inside the
\* loop each iteration has drawn exactly one scalar, and while the point is
\* not compactable the loop goes on: it cannot return and can draw again.
C7_GenerateTerminates ==
    /\ [](pc = "generate" => gen.draws = gen.iters + 1)
    /\ []((pc = "generate" /\ ~is_compactable(gen.public_key)) =>
            (ENABLED GenerateRetryCompactable /\ ~ENABLED GenerateReturn))
    /\ [](Called("generate") => (out.res.ok /\ out.draws = out.iters + 1))
    /\ (pc = "generate") ~> (pc = "idle" /\ Called("generate") /\ out.res.ok)

C7_Witness ==
    Called("generate") /\ out.res.ok /\ out.iters = MaxDraws /\ out.draws = MaxDraws + 1

\* C8: public_key_from_bytes fails with NotCompactError when no compactable
\* point of the curve has the body as its encoding; a public key it returns
\* is a compactable point of the curve whose encoding is the body.
C8_PublicKeyDecode ==
    Called("public_key_from_bytes") =>
        LET body  == Tail1(out.input)
            valid == \E Q \in CurvePoints :
                        is_compactable(Q) /\ ToBeBytes(Q.x, FieldSize) = body
        IN  /\ ~valid => (out.res = Err("NotCompactError") /\ pk = None)
            /\ out.res.ok =>
                /\ out.res.val \in CurvePoints
                /\ is_compactable(out.res.val)
                /\ PublicKey_bytes_into(out.res.val) = Ok(body)
                /\ pk # None /\ pk.point = out.res.val

C8_Witness ==
    /\ Called("public_key_from_bytes")
    /\ out.res = Err("NotCompactError")
    /\ FromBeBytes(Tail1(out.input)) < P

\* The DER INTEGER of every scalar in [1, n-1].
ScalarDer == [v \in Scalars |-> DerInt(v)]

\* bs continues with part at index i.
HasAt(bs, i, part) ==
    i + Len(part) - 1 <= Len(bs) /\ SubSeq(bs, i, i + Len(part) - 1) = part

\* sigbytes are the DER encoding of the scalars r and s in [1, n-1].
Encodes(sigbytes, r, s) ==
    /\ HasAt(sigbytes, 3, ScalarDer[r])
    /\ sigbytes = to_der([r |-> r, s |-> s])

\* The bytes are a well-formed DER signature.
WellFormedSignature(sigbytes) ==
    \E r \in Scalars :
        HasAt(sigbytes, 3, ScalarDer[r]) /\ \E s \in Scalars : Encodes(sigbytes, r, s)

\* The ECDSA verification equation holds for the signature in the bytes.
ValidFor(point, msg, sigbytes) ==
    \E r \in Scalars :
        /\ HasAt(sigbytes, 3, ScalarDer[r])
        /\ \E s \in Scalars :
              /\ Encodes(sigbytes, r, s)
              /\ LET w == InvN[s]
                     R == PointAdd(ScalarMul((HashToScalar(msg) * w) % N, G),
                                   ScalarMul((r * w) % N, point))
                 IN  (~R.inf) /\ R.x % N = r

C10_KeypairParseErrors ==
    Called("keypair_from_bytes") =>
        LET tag == out.input[1]
            v   == FromBeBytes(Tail1(out.input))
        IN  IF ~RecognisedTag(tag)
            THEN out.res = Err("UnknownNetworkError") /\ kp = None
            ELSE IF v < 1 \/ v >= N
            THEN out.res = Err("InvalidScalarError") /\ kp = None
            ELSE /\ out.res = Ok(kp)
                 /\ kp.network = NetworkOfTag(tag)
                 /\ kp.inner = v
                 /\ kp.public_key = for_network(NetworkOfTag(tag), MulG[v])

C10_Witness ==
    /\ Called("keypair_from_bytes")
    /\ ~RecognisedTag(out.input[1])
    /\ FromBeBytes(Tail1(out.input)) = 0
    /\ out.res = Err("UnknownNetworkError")

====
